---- MODULE Spec2Model ----
(***************************************************************************)
(* Model of Backend/controllers/quizController.js: the quiz, user and      *)
(* assignment collections and the request handlers createQuiz, submitQuiz, *)
(* updateQuiz, deleteQuiz, assignQuiz and getAssignedQuizForTaking.        *)
(*                                                                         *)
(* Spec       runs every handler to completion, one request after another. *)
(* SpecConc   interleaves the store reads and writes (the awaits) of       *)
(*            handlers that are in flight at the same time.                *)
(* SpecTaking reads assignments, some with an expiry date, for taking.     *)
(*                                                                         *)
(* Arrays keep the code's 0-based indices: a question list, an option list *)
(* and an answers array are functions on 0..n-1.  An absent JavaScript     *)
(* value (undefined) is None, a present value v is Some(v).                *)
(***************************************************************************)
EXTENDS Integers, Sequences, FiniteSets, TLC

\* ---------------------------------------------------------------- bounds
MaxQuizzes == 1
MaxQuestions == 3
NumOptions == 2
MaxEmails == 2
MaxClock == 3
NumProcs == 2
\* questions per quiz in the specifications that follow whole request flows
FlowQuestions == 1
\* questions per quiz in the authoring specification
AuthorQuestions == 2
\* fields one updateQuiz body carries
MaxPayloadFields == 1

\* ------------------------------------------------------------ vocabulary
None == <<>>
Some(v) == <<v>>
IsSome(o) == o # <<>>
Val(o) == o[1]

Users == {"u1", "u2"}
\* the order in which User.find returns the matching documents
UserOrder == <<"u1", "u2">>
\* User.email: unique per user
EmailOf(u) == IF u = "u1" THEN "a@x" ELSE "b@x"
UnknownEmail == "nobody@x"
Emails == {EmailOf(u) : u \in Users} \cup {UnknownEmail}
QuizIds == 1..MaxQuizzes
Procs == 1..NumProcs

Min(S) == CHOOSE x \in S : \A y \in S : x <= y
ArrLen(a) == Cardinality(DOMAIN a)

\* request inputs
Opt(S) == {None} \cup {Some(x) : x \in S}
OptionLists == [0..(NumOptions - 1) -> [isCorrect : BOOLEAN]]
QuestionListsUpTo(m) == UNION {[0..(n - 1) -> [options : OptionLists]] : n \in 0..m}
QuestionLists == QuestionListsUpTo(MaxQuestions)
AnswerVals == (-1)..NumOptions
AnswerArraysUpTo(m) == UNION {[D -> AnswerVals] : D \in SUBSET (0..(m - 1))}
AnswerArrays == AnswerArraysUpTo(MaxQuestions)
TimeTakenVals == {None, Some(5)}
EmailLists == UNION {[1..n -> Emails] : n \in 0..MaxEmails}

VARIABLES
  quizzes,         \* Quiz collection: id -> None | Some(document)
  nextQuizId,      \* the next _id the store hands out
  quizzesCreated,  \* User.quizzesCreated, per user
  quizzesTaken,    \* User.quizzesTaken, per user
  assignments,     \* QuizAssignment collection, in insertion order
  now,             \* the clock read by new Date()
  response,        \* the response to the last request, with the request it answers
  mail,            \* the calls the last request made to the email service, each with
                   \* its outcome (ok = FALSE: the call threw)
  procs            \* handlers in flight (SpecConc): position and locals

vars == <<quizzes, nextQuizId, quizzesCreated, quizzesTaken, assignments, now,
          response, mail, procs>>
store == <<quizzes, nextQuizId, quizzesCreated, quizzesTaken, assignments>>

IdleProc == [pc |-> "idle"]

Init ==
  /\ quizzes = [q \in QuizIds |-> None]
  /\ nextQuizId = 1
  /\ quizzesCreated = [u \in Users |-> <<>>]
  /\ quizzesTaken = [u \in Users |-> <<>>]
  /\ assignments = <<>>
  /\ now = 0
  /\ response = [op |-> "none", status |-> 0]
  /\ mail = <<>>
  /\ procs = [p \in Procs |-> IdleProc]

\* ------------------------------------------------------------ createQuiz
\* question.options.filter(option => option.isCorrect).length
CorrectCount(question) ==
  Cardinality({j \in DOMAIN question.options : question.options[j].isCorrect})

\* variant: a question passes with at least one correct option
AtLeastOneCorrectEach(questions) ==
  \A i \in DOMAIN questions : CorrectCount(questions[i]) >= 1

\* the validation loop: every question has exactly one correct option
AllExactlyOneCorrect(questions) ==
  \A i \in DOMAIN questions : CorrectCount(questions[i]) = 1

\* isPublic !== undefined ? isPublic : true
DefaultPublic(isPublic) == IF IsSome(isPublic) THEN Val(isPublic) ELSE TRUE

NewQuiz(u, questions, isPublic) ==
  [creator |-> u, questions |-> questions, isPublic |-> DefaultPublic(isPublic),
   attempts |-> <<>>]

CreateQuiz(u, questions, isPublic) ==
  /\ mail' = <<>>
  /\ UNCHANGED <<quizzesTaken, assignments, now, procs>>
  /\ IF ~IsSome(questions) \/ ArrLen(Val(questions)) = 0
     THEN /\ response' = [op |-> "createQuiz", user |-> u, status |-> 400, questions |-> questions,
                          message |-> "Quiz must have at least one question"]
          /\ UNCHANGED <<quizzes, nextQuizId, quizzesCreated>>
     ELSE IF ~AllExactlyOneCorrect(Val(questions))
     THEN /\ response' = [op |-> "createQuiz", user |-> u, status |-> 400, questions |-> questions,
                          message |-> "Each question must have exactly one correct answer"]
          /\ UNCHANGED <<quizzes, nextQuizId, quizzesCreated>>
     ELSE /\ nextQuizId <= MaxQuizzes
          /\ quizzes' = [quizzes EXCEPT ![nextQuizId] =
                           Some(NewQuiz(u, Val(questions), isPublic))]
          /\ nextQuizId' = nextQuizId + 1
          /\ quizzesCreated' = [quizzesCreated EXCEPT ![u] = Append(@, nextQuizId)]
          /\ response' = [op |-> "createQuiz", user |-> u, status |-> 201, questions |-> questions,
                          quizId |-> nextQuizId,
                          message |-> "Quiz created successfully"]

\* ------------------------------------------------------------ submitQuiz
\* variant: the status is left out of the filter
FindOneAnyStatus(asgs, q, u, status) ==
  LET S == {i \in DOMAIN asgs : asgs[i].quiz = q /\ asgs[i].assignedTo = u}
  IN IF S = {} THEN 0 ELSE Min(S)

\* QuizAssignment.findOne({quiz, assignedTo, status}): the index of the first
\* matching document, 0 when there is none (null)
FindOneByStatus(asgs, q, u, status) ==
  LET S == {i \in DOMAIN asgs : /\ asgs[i].quiz = q
                                /\ asgs[i].assignedTo = u
                                /\ asgs[i].status = status}
  IN IF S = {} THEN 0 ELSE Min(S)

\* variant: the creator test is left out
HasAccessWithoutCreator(quiz, u, assignment) == quiz.isPublic \/ assignment # 0

\* quiz.isPublic || quiz.creator.toString() === req.userId || assignment
HasAccess(quiz, u, assignment) ==
  quiz.isPublic \/ quiz.creator = u \/ assignment # 0

\* userAnswer !== undefined && userAnswer >= 0 && userAnswer < question.options.length
AnswerInRange(answers, i, question) ==
  /\ i \in DOMAIN answers
  /\ answers[i] >= 0
  /\ answers[i] < ArrLen(question.options)

\* variant: the selected option itself is taken for the verdict
SelectedOptionTruthy(question, userAnswer) == userAnswer \in DOMAIN question.options

\* selectedOption && selectedOption.isCorrect
IsCorrectOption(question, userAnswer) == question.options[userAnswer].isCorrect

\* the scoring loop, from question i on
RECURSIVE ScoreLoop(_, _, _, _, _)
ScoreLoop(questions, answers, i, score, processedAnswers) ==
  IF i >= ArrLen(questions)
  THEN [score |-> score, processedAnswers |-> processedAnswers]
  ELSE IF AnswerInRange(answers, i, questions[i])
       THEN LET isCorrect == IsCorrectOption(questions[i], answers[i])
            IN ScoreLoop(questions, answers, i + 1,
                         IF isCorrect THEN score + 1 ELSE score,
                         Append(processedAnswers,
                                [questionIndex |-> i, selectedOption |-> answers[i],
                                 isCorrect |-> isCorrect]))
       ELSE ScoreLoop(questions, answers, i + 1, score, processedAnswers)

\* Math.round((score / totalQuestions) * 100): halves round up; 0/0 is NaN, which
\* the JSON response carries as null
Percentage(score, totalQuestions) ==
  IF totalQuestions = 0 THEN None
  ELSE Some((200 * score + totalQuestions) \div (2 * totalQuestions))

\* timeTaken || 0
TimeTakenOrZero(timeTaken) ==
  IF IsSome(timeTaken) /\ Val(timeTaken) # 0 THEN Val(timeTaken) ELSE 0

\* quiz.addAttempt(userId, score, totalQuestions, processedAnswers)
AddAttempt(quiz, u, score, totalQuestions) ==
  [quiz EXCEPT !.attempts =
     Append(@, [user |-> u, score |-> score, totalQuestions |-> totalQuestions])]

\* the fields submitQuiz writes on the assignment it found
CompleteAssignment(a, score, totalQuestions, timeTaken, t) ==
  [a EXCEPT !.status = "completed", !.completedAt = Some(t), !.score = Some(score),
            !.totalQuestions = Some(totalQuestions),
            !.timeTaken = Some(TimeTakenOrZero(timeTaken))]

\* the two completion emails of one try block, to the user and then to the
\* assigner: call number mailFail throws (0: none does) and ends the block
CompletionMails(u, admin, mailFail) ==
  LET to == <<u, admin>> IN
  [i \in 1..(IF mailFail = 0 THEN 2 ELSE mailFail) |->
     [kind |-> "completion", to |-> to[i], ok |-> i # mailFail]]

\* variant: an error of the email service reaches the handler's outer catch
MailErrorEscalates(status, mailFail) == IF mailFail = 0 THEN status ELSE 500

\* catch (emailError) { console.error(...) }: the handler goes on to its response
AfterMailError(status, mailFail) == status

SubmitQuiz(u, q, answers, timeTaken, mailFail) ==
  LET assignment == FindOneByStatus(assignments, q, u, "pending")
      quiz == Val(quizzes[q])
      totalQuestions == ArrLen(quiz.questions)
      r == ScoreLoop(quiz.questions, Val(answers), 0, 0, <<>>)
  IN
  /\ UNCHANGED <<nextQuizId, quizzesCreated, procs>>
  /\ IF ~IsSome(quizzes[q])
     THEN /\ response' = [op |-> "submitQuiz", user |-> u, quizId |-> q, status |-> 404,
                          message |-> "Quiz not found"]
          /\ mailFail = 0 /\ mail' = <<>>
          /\ UNCHANGED <<quizzes, quizzesTaken, assignments, now>>
     ELSE IF ~HasAccess(quiz, u, assignment)
     THEN /\ response' = [op |-> "submitQuiz", user |-> u, quizId |-> q, status |-> 403,
                          message |-> "Access denied - You are not assigned to this quiz"]
          /\ mailFail = 0 /\ mail' = <<>>
          /\ UNCHANGED <<quizzes, quizzesTaken, assignments, now>>
     ELSE IF ~IsSome(answers) /\ totalQuestions > 0
     THEN \* answers[0] of undefined throws: the catch answers 500
          /\ response' = [op |-> "submitQuiz", user |-> u, quizId |-> q, status |-> 500,
                          message |-> "Error submitting quiz", submitted |-> answers]
          /\ mailFail = 0 /\ mail' = <<>>
          /\ UNCHANGED <<quizzes, quizzesTaken, assignments, now>>
     ELSE /\ now < MaxClock
          /\ now' = now + 1
          /\ quizzes' = [quizzes EXCEPT ![q] =
                           Some(AddAttempt(quiz, u, r.score, totalQuestions))]
          /\ quizzesTaken' = [quizzesTaken EXCEPT ![u] =
                                Append(@, [quiz |-> q, score |-> r.score,
                                           totalQuestions |-> totalQuestions,
                                           completedAt |-> now])]
          /\ IF assignment # 0
             THEN /\ assignments' = [assignments EXCEPT ![assignment] =
                                       CompleteAssignment(@, r.score, totalQuestions,
                                                          timeTaken, now)]
                  /\ mail' = CompletionMails(u, assignments[assignment].assignedBy, mailFail)
             ELSE /\ mailFail = 0 /\ mail' = <<>>
                  /\ UNCHANGED assignments
          /\ response' = [op |-> "submitQuiz", user |-> u, quizId |-> q,
                          status |-> AfterMailError(200, mailFail),
                          score |-> r.score, totalQuestions |-> totalQuestions,
                          percentage |-> Percentage(r.score, totalQuestions),
                          timeTaken |-> TimeTakenOrZero(timeTaken),
                          answers |-> r.processedAnswers,
                          submitted |-> answers, assignment |-> assignment]

\* ------------------------------------------------------------ updateQuiz
PayloadFields == {"questions", "isPublic", "creator"}
UpdatePayloads ==
  {d \in [questions : Opt(QuestionListsUpTo(AuthorQuestions)), isPublic : Opt(BOOLEAN), creator : Opt(Users)] :
     Cardinality({f \in PayloadFields : IsSome(d[f])}) <= MaxPayloadFields}

\* Quiz.findByIdAndUpdate(quizId, updateData): every field of the body is set
ApplyUpdate(quiz, updateData) ==
  [quiz EXCEPT
     !.questions = IF IsSome(updateData.questions) THEN Val(updateData.questions) ELSE @,
     !.isPublic = IF IsSome(updateData.isPublic) THEN Val(updateData.isPublic) ELSE @,
     !.creator = IF IsSome(updateData.creator) THEN Val(updateData.creator) ELSE @]

\* { runValidators: true }: the validators of the Quiz schema run on the fields of
\* the body.  The schema's rule is the one of the data model: each question has
\* exactly one option flagged correct; it sets no lower bound on the list's length.
RunValidators(updateData) ==
  IsSome(updateData.questions) => AllExactlyOneCorrect(Val(updateData.questions))

\* variant: the owner check is missing
OwnerCheckMissing(quiz, u) == FALSE

\* quiz.creator.toString() !== req.userId
NotCreator(quiz, u) == quiz.creator # u

UpdateQuiz(u, q, updateData) ==
  LET quiz == Val(quizzes[q]) IN
  /\ mail' = <<>>
  /\ UNCHANGED <<nextQuizId, quizzesCreated, quizzesTaken, assignments, now, procs>>
  /\ IF ~IsSome(quizzes[q])
     THEN /\ response' = [op |-> "updateQuiz", user |-> u, quizId |-> q, status |-> 404,
                          message |-> "Quiz not found"]
          /\ UNCHANGED quizzes
     ELSE IF NotCreator(quiz, u)
     THEN /\ response' = [op |-> "updateQuiz", user |-> u, quizId |-> q, status |-> 403,
                          message |-> "You can only update your own quizzes"]
          /\ UNCHANGED quizzes
     ELSE IF IsSome(updateData.questions) /\ ~AllExactlyOneCorrect(Val(updateData.questions))
     THEN /\ response' = [op |-> "updateQuiz", user |-> u, quizId |-> q, status |-> 400,
                          message |-> "Each question must have exactly one correct answer"]
          /\ UNCHANGED quizzes
     ELSE IF ~RunValidators(updateData)
     THEN \* the update throws: the catch answers 500
          /\ response' = [op |-> "updateQuiz", user |-> u, quizId |-> q, status |-> 500,
                          message |-> "Error updating quiz"]
          /\ UNCHANGED quizzes
     ELSE /\ quizzes' = [quizzes EXCEPT ![q] = Some(ApplyUpdate(quiz, updateData))]
          /\ response' = [op |-> "updateQuiz", user |-> u, quizId |-> q, status |-> 200,
                          message |-> "Quiz updated successfully"]

\* ------------------------------------------------------------ deleteQuiz
\* $pull: { quizzesCreated: quizId }
Pull(list, q) == SelectSeq(list, LAMBDA x : x # q)

DeleteQuiz(u, q) ==
  LET quiz == Val(quizzes[q]) IN
  /\ mail' = <<>>
  /\ UNCHANGED <<nextQuizId, quizzesTaken, assignments, now, procs>>
  /\ IF ~IsSome(quizzes[q])
     THEN /\ response' = [op |-> "deleteQuiz", user |-> u, quizId |-> q, status |-> 404,
                          message |-> "Quiz not found"]
          /\ UNCHANGED <<quizzes, quizzesCreated>>
     ELSE IF NotCreator(quiz, u)
     THEN /\ response' = [op |-> "deleteQuiz", user |-> u, quizId |-> q, status |-> 403,
                          message |-> "You can only delete your own quizzes"]
          /\ UNCHANGED <<quizzes, quizzesCreated>>
     ELSE /\ quizzes' = [quizzes EXCEPT ![q] = None]
          /\ quizzesCreated' = [quizzesCreated EXCEPT ![u] = Pull(@, q)]
          /\ response' = [op |-> "deleteQuiz", user |-> u, quizId |-> q, status |-> 200,
                          message |-> "Quiz deleted successfully"]

\* ------------------------------------------------------------ assignQuiz
Range(s) == {s[i] : i \in DOMAIN s}

\* !emails || !Array.isArray(emails) || emails.length === 0
NoEmails(emails) == ~IsSome(emails) \/ Len(Val(emails)) = 0

\* User.find({ email: { $in: emails } })
FindUsersByEmail(emails) ==
  SelectSeq(UserOrder, LAMBDA u : EmailOf(u) \in Range(emails))

\* variant: unresolved emails are dropped and the request goes on
NotFoundIgnored(emails, users) == <<>>

\* variant: the filter keeps the emails that were found
FoundEmailsListed(emails, users) ==
  SelectSeq(emails, LAMBDA e : e \in {EmailOf(users[i]) : i \in DOMAIN users})

\* emails.filter(email => !foundEmails.includes(email))
NotFoundEmails(emails, users) ==
  SelectSeq(emails, LAMBDA e : e \notin {EmailOf(users[i]) : i \in DOMAIN users})

\* variant: only a pending assignment counts as existing
ExistingPendingAssignment(asgs, q, u) ==
  \E i \in DOMAIN asgs :
    asgs[i].quiz = q /\ asgs[i].assignedTo = u /\ asgs[i].status = "pending"

\* QuizAssignment.findOne({ quiz: quizId, assignedTo: user._id }), any status
ExistingAssignment(asgs, q, u) ==
  \E i \in DOMAIN asgs : asgs[i].quiz = q /\ asgs[i].assignedTo = u

\* assignment.save() of a new document: the collection takes it as it comes
SaveNewAssignment(asgs, a) == Append(asgs, a)

NewAssignment(q, by, to, t) ==
  [quiz |-> q, assignedBy |-> by, assignedTo |-> to, assignedAt |-> t,
   status |-> "pending", completedAt |-> None, score |-> None,
   totalQuestions |-> None, timeTaken |-> None, expiresAt |-> None]

\* the loop over the resolved users, from users[k] on: the collection it
\* leaves and the assignments it created
\* the one call of the email service assignQuiz makes, after the loop: the summary
\* to the assigner (the email to each assigned user is commented out in the loop)
SummaryMail(u, mailFail) == <<[kind |-> "assignmentSummary", to |-> u, ok |-> mailFail = 0]>>

RECURSIVE AssignLoop(_, _, _, _, _, _, _)
AssignLoop(asgs, created, users, k, q, by, t) ==
  IF k > Len(users) THEN [assignments |-> asgs, created |-> created]
  ELSE IF ExistingAssignment(asgs, q, users[k])
       THEN AssignLoop(asgs, created, users, k + 1, q, by, t)
       ELSE AssignLoop(SaveNewAssignment(asgs, NewAssignment(q, by, users[k], t)),
                       Append(created, users[k]), users, k + 1, q, by, t)

AssignQuiz(u, q, emails, mailFail) ==
  LET quiz == Val(quizzes[q])
      users == FindUsersByEmail(Val(emails))
      notFoundEmails == NotFoundEmails(Val(emails), users)
      r == AssignLoop(assignments, <<>>, users, 1, q, u, now)
  IN
  /\ UNCHANGED <<quizzes, nextQuizId, quizzesCreated, quizzesTaken, procs>>
  /\ IF NoEmails(emails)
     THEN /\ response' = [op |-> "assignQuiz", user |-> u, quizId |-> q, status |-> 400,
                          emails |-> emails,
                          message |-> "Please provide at least one email address"]
          /\ mailFail = 0 /\ mail' = <<>>
          /\ UNCHANGED <<assignments, now>>
     ELSE IF ~IsSome(quizzes[q])
     THEN /\ response' = [op |-> "assignQuiz", user |-> u, quizId |-> q, status |-> 404,
                          emails |-> emails, message |-> "Quiz not found"]
          /\ mailFail = 0 /\ mail' = <<>>
          /\ UNCHANGED <<assignments, now>>
     ELSE IF NotCreator(quiz, u)
     THEN /\ response' = [op |-> "assignQuiz", user |-> u, quizId |-> q, status |-> 403,
                          emails |-> emails,
                          message |-> "You can only assign your own quizzes"]
          /\ mailFail = 0 /\ mail' = <<>>
          /\ UNCHANGED <<assignments, now>>
     ELSE IF Len(notFoundEmails) > 0
     THEN /\ response' = [op |-> "assignQuiz", user |-> u, quizId |-> q, status |-> 400,
                          emails |-> emails, message |-> "Users not found",
                          notFoundEmails |-> notFoundEmails]
          /\ mailFail = 0 /\ mail' = <<>>
          /\ UNCHANGED <<assignments, now>>
     ELSE /\ assignments' = r.assignments
          /\ IF Len(r.created) > 0
             THEN now < MaxClock /\ now' = now + 1
             ELSE UNCHANGED now
          /\ mail' = SummaryMail(u, mailFail)
          /\ response' = [op |-> "assignQuiz", user |-> u, quizId |-> q,
                          status |-> AfterMailError(200, mailFail),
                          emails |-> emails,
                          assignedCount |-> Len(r.created),
                          totalEmails |-> Len(Val(emails)),
                          notFoundEmails |-> notFoundEmails]

\* ---------------------------------------------- getAssignedQuizForTaking
\* variant: the expiry date is not looked at
ExpiresAtIgnored(assignment, t) == FALSE

\* assignment.expiresAt && new Date() > assignment.expiresAt
Expired(assignment, t) == IsSome(assignment.expiresAt) /\ t > Val(assignment.expiresAt)

\* Quiz.getQuizForTaking(quizId): the quiz with every option's isCorrect taken out,
\* null when there is no such quiz
GetQuizForTaking(q) ==
  IF ~IsSome(quizzes[q]) THEN None
  ELSE LET quiz == Val(quizzes[q]) IN
       Some([creator |-> quiz.creator, isPublic |-> quiz.isPublic,
             questions |-> [i \in DOMAIN quiz.questions |->
                              [options |-> [j \in DOMAIN quiz.questions[i].options |->
                                              [isCorrect |-> None]]]]])

GetAssignedQuizForTaking(u, q) ==
  LET assignment == FindOneByStatus(assignments, q, u, "pending")
      quiz == GetQuizForTaking(q)
  IN
  /\ mail' = <<>>
  /\ UNCHANGED <<store, now, procs>>
  /\ response' =
       IF assignment = 0
       THEN [op |-> "getAssignedQuizForTaking", user |-> u, quizId |-> q, status |-> 404,
             message |-> "Quiz assignment not found or already completed"]
       ELSE IF Expired(assignments[assignment], now)
       THEN [op |-> "getAssignedQuizForTaking", user |-> u, quizId |-> q, status |-> 400,
             message |-> "This quiz has expired"]
       ELSE IF ~IsSome(quiz)
       THEN [op |-> "getAssignedQuizForTaking", user |-> u, quizId |-> q, status |-> 404,
             message |-> "Quiz not found"]
       ELSE [op |-> "getAssignedQuizForTaking", user |-> u, quizId |-> q, status |-> 200,
             quiz |-> Val(quiz),
             assignment |-> [id |-> assignment,
                             expiresAt |-> assignments[assignment].expiresAt,
                             assignedAt |-> assignments[assignment].assignedAt]]

\* --------------------------------------------------------- specifications
CreateStep(lists) ==
  \E u \in Users, ql \in Opt(lists), pub \in Opt(BOOLEAN) : CreateQuiz(u, ql, pub)

\* the email service is called, and may fail, only when an assignment is completed
SubmitStep(arrays) ==
  \E u \in Users, q \in QuizIds, a \in Opt(arrays), tt \in TimeTakenVals :
    \E mf \in IF FindOneByStatus(assignments, q, u, "pending") # 0 THEN 0..2 ELSE {0} :
      SubmitQuiz(u, q, a, tt, mf)

UpdateStep == \E u \in Users, q \in QuizIds, d \in UpdatePayloads : UpdateQuiz(u, q, d)

DeleteStep == \E u \in Users, q \in QuizIds : DeleteQuiz(u, q)

AssignStep ==
  \E u \in Users, q \in QuizIds, e \in Opt(EmailLists), mf \in 0..1 : AssignQuiz(u, q, e, mf)

\* the taking flow: quizzes are created, assigned and submitted, one request
\* after another
Next ==
  \/ CreateStep(QuestionListsUpTo(FlowQuestions))
  \/ AssignStep
  \/ SubmitStep(AnswerArraysUpTo(FlowQuestions))

Spec == Init /\ [][Next]_vars

\* the authoring flow: quizzes are created, updated, deleted and assigned, one
\* request after another
NextQuiz ==
  \/ CreateStep(QuestionListsUpTo(AuthorQuestions))
  \/ UpdateStep
  \/ DeleteStep
  \/ AssignStep

SpecQuiz == Init /\ [][NextQuiz]_vars

\* scoring: one submission against every quiz of u1 the store can hold
InitScoring ==
  /\ \E ql \in {x \in QuestionLists : AllExactlyOneCorrect(x)}, pub \in BOOLEAN :
       quizzes = [q \in QuizIds |-> IF q = 1 THEN Some(NewQuiz("u1", ql, Some(pub))) ELSE None]
  /\ quizzesCreated = [v \in Users |-> IF v = "u1" THEN <<1>> ELSE <<>>]
  /\ nextQuizId = 2
  /\ quizzesTaken = [u \in Users |-> <<>>]
  /\ assignments = <<>>
  /\ now = 0
  /\ response = [op |-> "none", status |-> 0]
  /\ mail = <<>>
  /\ procs = [p \in Procs |-> IdleProc]

NextScoring ==
  /\ response.op = "none"
  /\ SubmitStep(AnswerArrays)

SpecScoring == InitScoring /\ [][NextScoring]_vars

\* taking: quiz 1 of u1, which u1 may have deleted since, was assigned at time 0 to
\* some of the users, who may have completed it; an assignment may carry an expiry
\* date; time passes between the requests
ExpiryDates == Opt(0..MaxClock)

OneQuestion ==
  [i \in 0..0 |-> [options |-> [j \in 0..(NumOptions - 1) |-> [isCorrect |-> j = 0]]]]

StoredAssignments ==
  {[a EXCEPT !.expiresAt = e] :
     e \in ExpiryDates,
     a \in UNION {{NewAssignment(1, "u1", u, 0),
                   CompleteAssignment(NewAssignment(1, "u1", u, 0), 1, 1, Some(5), 0)} :
                  u \in Users}}

\* at most one assignment per user, as requests served one after another leave it
TakingAssignments ==
  {asgs \in UNION {[1..n -> StoredAssignments] : n \in 0..Cardinality(Users)} :
     \A i, j \in DOMAIN asgs : i # j => asgs[i].assignedTo # asgs[j].assignedTo}

InitTaking ==
  /\ assignments \in TakingAssignments
  /\ LET completed == SelectSeq(assignments, LAMBDA a : a.status = "completed")
         quiz == [NewQuiz("u1", OneQuestion, Some(FALSE)) EXCEPT
                    !.attempts = [i \in DOMAIN completed |->
                                    [user |-> completed[i].assignedTo, score |-> 1,
                                     totalQuestions |-> 1]]]
     IN /\ quizzesTaken =
             [u \in Users |->
                IF \E i \in DOMAIN completed : completed[i].assignedTo = u
                THEN <<[quiz |-> 1, score |-> 1, totalQuestions |-> 1, completedAt |-> 0]>>
                ELSE <<>>]
        /\ \E deleted \in BOOLEAN :
             /\ quizzes = [q \in QuizIds |-> IF q = 1 /\ ~deleted THEN Some(quiz) ELSE None]
             /\ quizzesCreated = [u \in Users |-> IF u = "u1" /\ ~deleted THEN <<1>> ELSE <<>>]
  /\ nextQuizId = 2
  /\ now = 1
  /\ response = [op |-> "none", status |-> 0]
  /\ mail = <<>>
  /\ procs = [p \in Procs |-> IdleProc]

TakeStep == \E u \in Users, q \in QuizIds : GetAssignedQuizForTaking(u, q)

\* time passes: a later new Date() reads a later time
Tick ==
  /\ now < MaxClock
  /\ now' = now + 1
  /\ UNCHANGED <<store, response, mail, procs>>

NextTaking == TakeStep \/ Tick

SpecTaking == InitTaking /\ [][NextTaking]_vars

\* ------------------------------------------------------ handlers in flight
\* One handler per process, cut at its awaits: each action below is one store
\* read or write (or the notification calls) together with the synchronous code
\* that follows it up to the next await.  procs[p] holds the handler's position
\* and its local variables.
Finish(p, r) ==
  /\ procs' = [procs EXCEPT ![p] = [pc |-> "done", response |-> r]]
  /\ response' = r

\* assignQuiz: the check of the email list, then Quiz.findById and the owner check
AssignFindQuiz(p, u, q, emails) ==
  /\ procs[p].pc = "idle"
  /\ UNCHANGED <<store, now, mail>>
  /\ IF NoEmails(emails)
     THEN Finish(p, [op |-> "assignQuiz", user |-> u, quizId |-> q, status |-> 400,
                     emails |-> emails,
                     message |-> "Please provide at least one email address"])
     ELSE IF ~IsSome(quizzes[q])
     THEN Finish(p, [op |-> "assignQuiz", user |-> u, quizId |-> q, status |-> 404,
                     emails |-> emails, message |-> "Quiz not found"])
     ELSE IF NotCreator(Val(quizzes[q]), u)
     THEN Finish(p, [op |-> "assignQuiz", user |-> u, quizId |-> q, status |-> 403,
                     emails |-> emails,
                     message |-> "You can only assign your own quizzes"])
     ELSE /\ procs' = [procs EXCEPT ![p] =
                         [pc |-> "assign_findUsers", op |-> "assignQuiz", user |-> u,
                          quizId |-> q, emails |-> emails]]
          /\ UNCHANGED response

\* where the loop over the users goes after users[k - 1]
LoopPc(users, k) == IF k > Len(users) THEN "assign_notify" ELSE "assign_findExisting"

\* User.find by email, the not-found answer, User.findById of the assigner
AssignFindUsers(p) ==
  LET l == procs[p]
      users == FindUsersByEmail(Val(l.emails))
      notFoundEmails == NotFoundEmails(Val(l.emails), users)
  IN
  /\ l.pc = "assign_findUsers"
  /\ UNCHANGED <<store, now, mail>>
  /\ IF Len(notFoundEmails) > 0
     THEN Finish(p, [op |-> "assignQuiz", user |-> l.user, quizId |-> l.quizId,
                     status |-> 400, emails |-> l.emails, message |-> "Users not found",
                     notFoundEmails |-> notFoundEmails])
     ELSE /\ procs' = [procs EXCEPT ![p] =
                         [pc |-> LoopPc(users, 1), op |-> "assignQuiz", user |-> l.user,
                          quizId |-> l.quizId, emails |-> l.emails, users |-> users,
                          k |-> 1, created |-> <<>>]]
          /\ UNCHANGED response

\* QuizAssignment.findOne({quiz, assignedTo}) for users[k]
AssignFindExisting(p) ==
  LET l == procs[p] IN
  /\ l.pc = "assign_findExisting"
  /\ UNCHANGED <<store, now, mail, response>>
  /\ procs' = [procs EXCEPT ![p] =
                 IF ExistingAssignment(assignments, l.quizId, l.users[l.k])
                 THEN [l EXCEPT !.k = l.k + 1, !.pc = LoopPc(l.users, l.k + 1)]
                 ELSE [l EXCEPT !.pc = "assign_save"]]

\* assignment.save() of the new pending assignment for users[k]
AssignSave(p) ==
  LET l == procs[p] IN
  /\ l.pc = "assign_save"
  /\ assignments' = SaveNewAssignment(assignments,
                                     NewAssignment(l.quizId, l.user, l.users[l.k], now))
  /\ now' = now + 1
  /\ procs' = [procs EXCEPT ![p] =
                 [l EXCEPT !.created = Append(@, l.users[l.k]), !.k = l.k + 1,
                           !.pc = LoopPc(l.users, l.k + 1)]]
  /\ UNCHANGED <<quizzes, nextQuizId, quizzesCreated, quizzesTaken, mail, response>>

\* the summary email to the assigner, and the response
AssignNotify(p, mailFail) ==
  LET l == procs[p] IN
  /\ l.pc = "assign_notify"
  /\ UNCHANGED <<store, now>>
  /\ mail' = SummaryMail(l.user, mailFail)
  /\ Finish(p, [op |-> "assignQuiz", user |-> l.user, quizId |-> l.quizId,
                status |-> AfterMailError(200, mailFail),
                emails |-> l.emails, assignedCount |-> Len(l.created),
                totalEmails |-> Len(Val(l.emails)), notFoundEmails |-> <<>>])

\* submitQuiz: Quiz.findById
SubmitFindQuiz(p, u, q, answers, timeTaken) ==
  /\ procs[p].pc = "idle"
  /\ UNCHANGED <<store, now, mail>>
  /\ IF ~IsSome(quizzes[q])
     THEN Finish(p, [op |-> "submitQuiz", user |-> u, quizId |-> q, status |-> 404,
                     message |-> "Quiz not found"])
     ELSE /\ procs' = [procs EXCEPT ![p] =
                         [pc |-> "submit_findAssignment", op |-> "submitQuiz", user |-> u,
                          quizId |-> q, answers |-> answers, timeTaken |-> timeTaken,
                          quiz |-> Val(quizzes[q])]]
          /\ UNCHANGED response

\* QuizAssignment.findOne({quiz, assignedTo, status: 'pending'}), the access check
\* and the scoring loop
SubmitFindAssignment(p) ==
  LET l == procs[p]
      assignment == FindOneByStatus(assignments, l.quizId, l.user, "pending")
      totalQuestions == ArrLen(l.quiz.questions)
      r == ScoreLoop(l.quiz.questions, Val(l.answers), 0, 0, <<>>)
  IN
  /\ l.pc = "submit_findAssignment"
  /\ UNCHANGED <<store, now, mail>>
  /\ IF ~HasAccess(l.quiz, l.user, assignment)
     THEN Finish(p, [op |-> "submitQuiz", user |-> l.user, quizId |-> l.quizId,
                     status |-> 403,
                     message |-> "Access denied - You are not assigned to this quiz"])
     ELSE IF ~IsSome(l.answers) /\ totalQuestions > 0
     THEN Finish(p, [op |-> "submitQuiz", user |-> l.user, quizId |-> l.quizId,
                     status |-> 500, message |-> "Error submitting quiz"])
     ELSE /\ procs' = [procs EXCEPT ![p] =
                         [pc |-> "submit_addAttempt", op |-> "submitQuiz",
                          user |-> l.user, quizId |-> l.quizId, answers |-> l.answers,
                          timeTaken |-> l.timeTaken, assignment |-> assignment,
                          score |-> r.score, totalQuestions |-> totalQuestions,
                          processedAnswers |-> r.processedAnswers]]
          /\ UNCHANGED response

\* quiz.addAttempt(...)
SubmitAddAttempt(p) ==
  LET l == procs[p] IN
  /\ l.pc = "submit_addAttempt"
  /\ quizzes' = [quizzes EXCEPT ![l.quizId] =
                   IF IsSome(@)
                   THEN Some(AddAttempt(Val(@), l.user, l.score, l.totalQuestions))
                   ELSE @]
  /\ procs' = [procs EXCEPT ![p] = [l EXCEPT !.pc = "submit_pushTaken"]]
  /\ UNCHANGED <<nextQuizId, quizzesCreated, quizzesTaken, assignments, now, mail, response>>

\* User.findByIdAndUpdate(req.userId, {$push: {quizzesTaken: ...}})
SubmitPushTaken(p) ==
  LET l == procs[p] IN
  /\ l.pc = "submit_pushTaken"
  /\ quizzesTaken' = [quizzesTaken EXCEPT ![l.user] =
                        Append(@, [quiz |-> l.quizId, score |-> l.score,
                                   totalQuestions |-> l.totalQuestions,
                                   completedAt |-> now])]
  /\ now' = now + 1
  /\ procs' = [procs EXCEPT ![p] =
                 [l EXCEPT !.pc = IF l.assignment # 0 THEN "submit_save"
                                  ELSE "submit_respond"]]
  /\ UNCHANGED <<quizzes, nextQuizId, quizzesCreated, assignments, mail, response>>

\* assignment.save() of the assignment document found earlier, with the five
\* fields set on it
SubmitSave(p) ==
  LET l == procs[p] IN
  /\ l.pc = "submit_save"
  /\ assignments' = [assignments EXCEPT ![l.assignment] =
                       CompleteAssignment(@, l.score, l.totalQuestions, l.timeTaken, now)]
  /\ now' = now + 1
  /\ procs' = [procs EXCEPT ![p] = [l EXCEPT !.pc = "submit_notify"]]
  /\ UNCHANGED <<quizzes, nextQuizId, quizzesCreated, quizzesTaken, mail, response>>

\* the completion emails (when an assignment was completed) and the response
SubmitRespond(p, mailFail) ==
  LET l == procs[p] IN
  /\ l.pc \in {"submit_notify", "submit_respond"}
  /\ UNCHANGED <<store, now>>
  /\ IF l.pc = "submit_notify"
     THEN mail' = CompletionMails(l.user, assignments[l.assignment].assignedBy, mailFail)
     ELSE mailFail = 0 /\ mail' = <<>>
  /\ Finish(p, [op |-> "submitQuiz", user |-> l.user, quizId |-> l.quizId,
                status |-> AfterMailError(200, mailFail),
                score |-> l.score, totalQuestions |-> l.totalQuestions,
                percentage |-> Percentage(l.score, l.totalQuestions),
                timeTaken |-> TimeTakenOrZero(l.timeTaken),
                answers |-> l.processedAnswers,
                submitted |-> l.answers, assignment |-> l.assignment])

\* a private quiz of u1 with one question, not yet assigned or assigned to u2 and
\* pending: both are states the taking flow reaches
InitConc ==
  /\ quizzes = [q \in QuizIds |->
                  IF q = 1
                  THEN Some(NewQuiz("u1",
                         [i \in 0..0 |-> [options |->
                            [j \in 0..(NumOptions - 1) |-> [isCorrect |-> j = 0]]]],
                         Some(FALSE)))
                  ELSE None]
  /\ nextQuizId = 2
  /\ quizzesCreated = [u \in Users |-> IF u = "u1" THEN <<1>> ELSE <<>>]
  /\ quizzesTaken = [u \in Users |-> <<>>]
  /\ \/ assignments = <<>> /\ now = 0
     \/ assignments = <<NewAssignment(1, "u1", "u2", 0)>> /\ now = 1
  /\ response = [op |-> "none", status |-> 0]
  /\ mail = <<>>
  /\ procs = [p \in Procs |-> IdleProc]

NextConc ==
  \E p \in Procs :
    \/ \E u \in Users, q \in QuizIds, e \in Opt(EmailLists) : AssignFindQuiz(p, u, q, e)
    \/ AssignFindUsers(p)
    \/ AssignFindExisting(p)
    \/ AssignSave(p)
    \/ \E mf \in 0..1 : AssignNotify(p, mf)
    \/ \E u \in Users, q \in QuizIds, a \in Opt(AnswerArraysUpTo(FlowQuestions)),
          tt \in TimeTakenVals : SubmitFindQuiz(p, u, q, a, tt)
    \/ SubmitFindAssignment(p)
    \/ SubmitAddAttempt(p)
    \/ SubmitPushTaken(p)
    \/ SubmitSave(p)
    \/ \E mf \in 0..2 : SubmitRespond(p, mf)

SpecConc == InitConc /\ [][NextConc]_vars

\* ------------------------------------------------------------------ claims
IsSubmit(r) == r.op = "submitQuiz"
IsAssign(r) == r.op = "assignQuiz"
QuizExists(q) == IsSome(quizzes[q])
AssignmentsOf(asgs, q, u) == {i \in DOMAIN asgs : asgs[i].quiz = q /\ asgs[i].assignedTo = u}

\* C1: a granted submitQuiz returns as score the number of question indices whose
\* answer is present, lies within the question's options and selects an option with
\* isCorrect = true; totalQuestions is the number of questions; percentage is
\* score / totalQuestions * 100 rounded to the nearest integer, halves upward (NaN,
\* sent as null, when the quiz has no question).
C1_ScoreIsCountOfCorrect ==
  (IsSubmit(response) /\ response.status = 200) =>
    LET questions == Val(quizzes[response.quizId]).questions
        N == ArrLen(questions)
        answers == IF IsSome(response.submitted) THEN Val(response.submitted) ELSE <<>>
        correct == {i \in 0..(N - 1) :
                      /\ i \in DOMAIN answers
                      /\ answers[i] \in 0..(ArrLen(questions[i].options) - 1)
                      /\ questions[i].options[answers[i]].isCorrect}
    IN /\ response.score = Cardinality(correct)
       /\ response.totalQuestions = N
       /\ N = 0 => response.percentage = None
       /\ N > 0 => /\ IsSome(response.percentage)
                   /\ 2 * N * Val(response.percentage) - N <= 200 * response.score
                   /\ 200 * response.score < 2 * N * Val(response.percentage) + N

\* two questions with the correct option at index 0, answers [0, 1]: score 1, 50 %
C1_Witness ==
  /\ IsSubmit(response) /\ response.status = 200
  /\ Val(quizzes[response.quizId]).questions =
       [i \in 0..1 |-> [options |-> [j \in 0..(NumOptions - 1) |-> [isCorrect |-> j = 0]]]]
  /\ response.submitted = Some([i \in 0..1 |-> i])
  /\ response.score = 1 /\ response.totalQuestions = 2 /\ response.percentage = Some(50)

\* C2: createQuiz answers 201 and persists the quiz exactly when the question list
\* is non-empty and every question has exactly one correct option; otherwise it
\* answers 400 and adds neither a quiz document nor a quizzesCreated entry.
C2_CreateIffValid ==
  [][response'.op = "createQuiz" =>
       LET valid == /\ IsSome(response'.questions)
                    /\ DOMAIN Val(response'.questions) # {}
                    /\ \A i \in DOMAIN Val(response'.questions) :
                         \E j \in DOMAIN Val(response'.questions)[i].options :
                           \A k \in DOMAIN Val(response'.questions)[i].options :
                             Val(response'.questions)[i].options[k].isCorrect <=> k = j
       IN IF valid
          THEN /\ response'.status = 201
               /\ ~IsSome(quizzes[response'.quizId])
               /\ IsSome(quizzes'[response'.quizId])
               /\ Val(quizzes'[response'.quizId]).questions = Val(response'.questions)
               /\ Val(quizzes'[response'.quizId]).creator = response'.user
               /\ quizzesCreated'[response'.user] =
                    Append(quizzesCreated[response'.user], response'.quizId)
          ELSE /\ response'.status = 400
               /\ UNCHANGED <<quizzes, quizzesCreated>>]_vars

C2_Witness ==
  /\ response.op = "createQuiz" /\ response.status = 400
  /\ IsSome(response.questions)
  /\ ArrLen(Val(response.questions)) = 2
  /\ CorrectCount(Val(response.questions)[0]) = 1
  /\ CorrectCount(Val(response.questions)[1]) = 2

\* C3: a submitQuiz for an existing quiz is let through only if the quiz is public,
\* the submitter is its creator, or a pending assignment exists for (quiz,
\* submitter); otherwise it answers 403 and the store is unchanged.
C3_SubmitAccess ==
  [][(IsSubmit(response') /\ QuizExists(response'.quizId)) =>
       LET q == response'.quizId
           u == response'.user
           permitted == \/ Val(quizzes[q]).isPublic
                        \/ Val(quizzes[q]).creator = u
                        \/ \E i \in AssignmentsOf(assignments, q, u) :
                             assignments[i].status = "pending"
       IN /\ ~permitted => response'.status = 403
          /\ response'.status = 403 => (~permitted /\ UNCHANGED store)]_vars

\* denied although the submitter has an assignment for the quiz: it is completed
C3_Witness ==
  /\ IsSubmit(response) /\ response.status = 403
  /\ \E i \in AssignmentsOf(assignments, response.quizId, response.user) :
       assignments[i].status = "completed"

\* C4 as stated: on an existing quiz, updateQuiz, deleteQuiz and assignQuiz by a
\* user other than the creator answer 403 and change nothing in the store; by the
\* creator they never answer 403.
OwnerOps == {"updateQuiz", "deleteQuiz", "assignQuiz"}

C4_Original ==
  [][(response'.op \in OwnerOps /\ QuizExists(response'.quizId)) =>
       IF Val(quizzes[response'.quizId]).creator # response'.user
       THEN response'.status = 403 /\ UNCHANGED store
       ELSE response'.status # 403]_vars

\* C4, amended: the same, except that assignQuiz looks at the email list first: a
\* missing or empty list is answered 400 whoever sends it, and only an assignQuiz
\* with a non-empty list answers the non-creator with 403; the store is unchanged
\* in both cases.
C4_OwnershipEnforced ==
  [][(response'.op \in OwnerOps /\ QuizExists(response'.quizId)) =>
       LET noEmails == /\ IsAssign(response')
                       /\ (~IsSome(response'.emails) \/ Len(Val(response'.emails)) = 0)
       IN IF Val(quizzes[response'.quizId]).creator # response'.user
          THEN /\ response'.status = IF noEmails THEN 400 ELSE 403
               /\ UNCHANGED store
          ELSE response'.status # 403]_vars

\* a non-creator was refused the update of a quiz that exists
C4_Witness ==
  /\ response.op = "updateQuiz" /\ response.status = 403
  /\ QuizExists(response.quizId)
  /\ Val(quizzes[response.quizId]).creator # response.user

\* C5: with assignQuiz handlers run one after another, an assignQuiz for a user who
\* already has an assignment for the quiz (pending or completed) adds no record and
\* leaves the existing records as they are; every user a successful request targets
\* has exactly one assignment for the quiz afterwards.
TargetsOf(r) == {u \in Users : EmailOf(u) \in Range(Val(r.emails))}

C5_AssignIdempotent ==
  [][(IsAssign(response') /\ response'.status = 200) =>
       LET q == response'.quizId
           fresh == {u \in TargetsOf(response') : AssignmentsOf(assignments, q, u) = {}}
       IN /\ Len(assignments') = Len(assignments) + Cardinality(fresh)
          /\ \A i \in DOMAIN assignments : assignments'[i] = assignments[i]
          /\ \A u \in TargetsOf(response') :
               Cardinality(AssignmentsOf(assignments', q, u)) = 1
          /\ response'.assignedCount = Cardinality(fresh)]_vars

\* a quiz was assigned again to a user who had already completed it
C5_Witness ==
  /\ IsAssign(response) /\ response.status = 200 /\ response.assignedCount = 0
  /\ \E u \in TargetsOf(response) :
       \E i \in AssignmentsOf(assignments, response.quizId, u) :
         assignments[i].status = "completed"

\* C7: with submitQuiz handlers run one after another, a submission by a user whose
\* assignment for the quiz is completed leaves that assignment as the first
\* completion wrote it (status, score, totalQuestions, timeTaken, completedAt).
C7_CompletedUntouched ==
  [][IsSubmit(response') =>
       \A i \in AssignmentsOf(assignments, response'.quizId, response'.user) :
         assignments[i].status = "completed" => assignments'[i] = assignments[i]]_vars

\* a second submission was scored (the quiz is public or the submitter's own) while
\* the submitter's assignment was completed, with a different score
C7_Witness ==
  /\ IsSubmit(response) /\ response.status = 200
  /\ \E i \in AssignmentsOf(assignments, response.quizId, response.user) :
       /\ assignments[i].status = "completed"
       /\ assignments[i].score # Some(response.score)

\* C9 as stated: an assignQuiz by the creator whose list mixes resolvable and
\* unresolvable emails reports the unresolvable ones in notFoundEmails, creates no
\* assignment for them, and still leaves every resolvable user of the request with
\* an assignment (a new pending one where there was none).
Unresolvable(e) == \A u \in Users : EmailOf(u) # e
ByCreator(r) == QuizExists(r.quizId) /\ Val(quizzes[r.quizId]).creator = r.user
Mixed(r) ==
  /\ IsSome(r.emails)
  /\ \E i \in DOMAIN Val(r.emails) : Unresolvable(Val(r.emails)[i])
  /\ \E i \in DOMAIN Val(r.emails) : ~Unresolvable(Val(r.emails)[i])

C9_Original ==
  (IsAssign(response) /\ ByCreator(response) /\ Mixed(response)) =>
    /\ Range(response.notFoundEmails) =
         {e \in Range(Val(response.emails)) : Unresolvable(e)}
    /\ \A u \in TargetsOf(response) :
         AssignmentsOf(assignments, response.quizId, u) # {}

\* C9, amended: such a request is answered 400 with the unresolvable emails in
\* notFoundEmails and creates no assignment at all, not for the resolvable emails
\* of the request either.
C9_MixedListRejected ==
  [][(IsAssign(response') /\ ByCreator(response') /\ Mixed(response')) =>
       /\ response'.status = 400
       /\ Range(response'.notFoundEmails) =
            {e \in Range(Val(response'.emails)) : Unresolvable(e)}
       /\ \A u \in TargetsOf(response') :
            AssignmentsOf(assignments', response'.quizId, u) =
              AssignmentsOf(assignments, response'.quizId, u)
       /\ Len(assignments') = Len(assignments)]_vars

\* a mixed list was refused and its resolvable user is left without an assignment
C9_Witness ==
  /\ IsAssign(response) /\ ByCreator(response) /\ Mixed(response)
  /\ response.status = 400
  /\ \E u \in TargetsOf(response) :
       AssignmentsOf(assignments, response.quizId, u) = {}

\* C10: an assignQuiz by the creator with at least one email that resolves to no
\* user is answered 400 with exactly the unresolved emails of the request, in the
\* request's order, and the assignment collection is the same after it as before.
C10_UnresolvedFailsWhole ==
  [][(IsAssign(response') /\ ByCreator(response') /\ IsSome(response'.emails)
        /\ \E i \in DOMAIN Val(response'.emails) : Unresolvable(Val(response'.emails)[i])) =>
       /\ response'.status = 400
       /\ response'.notFoundEmails =
            SelectSeq(Val(response'.emails), LAMBDA e : Unresolvable(e))
       /\ assignments' = assignments]_vars

\* refused for an unknown email while assignments of an earlier request exist
C10_Witness ==
  /\ IsAssign(response) /\ response.status = 400
  /\ IsSome(response.emails) /\ Len(Val(response.emails)) > 0
  /\ Len(response.notFoundEmails) = Len(Val(response.emails))
  /\ Len(assignments) > 0

\* C6: in every reachable state, also when the store reads and writes of assignQuiz
\* handlers in flight at the same time interleave, there is at most one assignment
\* record per (quiz, assignedTo) pair.
C6_AtMostOnePerPair ==
  \A q \in QuizIds, u \in Users : Cardinality(AssignmentsOf(assignments, q, u)) <= 1

\* C8: over any interleaving of submitQuiz handlers, an assignment is completed
\* once: after its completion fields are written no later write changes them.
C8_CompletedOnce ==
  [][\A i \in DOMAIN assignments :
       assignments[i].status = "completed" => assignments'[i] = assignments[i]]_vars

\* C11: every stored quiz has at least one question, and every question of a stored
\* quiz has exactly one option with isCorrect = true (so no quiz with
\* totalQuestions = 0 reaches scoring).
C11_StoredQuizzesValid ==
  \A q \in QuizIds :
    IsSome(quizzes[q]) =>
      LET questions == Val(quizzes[q]).questions
      IN /\ DOMAIN questions # {}
         /\ \A i \in DOMAIN questions :
              Cardinality({j \in DOMAIN questions[i].options :
                             questions[i].options[j].isCorrect}) = 1

\* C12: a granted submitQuiz returns one result entry per question of the quiz, in
\* question order: the list is as long as totalQuestions, its entry for question i
\* carries questionIndex i, and the entry of a question whose answer is absent or
\* out of range is marked incorrect.
C12_OneEntryPerQuestion ==
  (IsSubmit(response) /\ response.status = 200) =>
    LET questions == Val(quizzes[response.quizId]).questions
        answers == IF IsSome(response.submitted) THEN Val(response.submitted) ELSE <<>>
    IN /\ Len(response.answers) = response.totalQuestions
       /\ \A i \in 0..(response.totalQuestions - 1) :
            /\ response.answers[i + 1].questionIndex = i
            /\ (i \notin DOMAIN answers
                  \/ answers[i] \notin 0..(ArrLen(questions[i].options) - 1))
                 => ~response.answers[i + 1].isCorrect

\* C13: getAssignedQuizForTaking changes nothing in the store; it succeeds only if
\* the caller has a pending assignment for the quiz whose expiresAt is unset or not
\* in the past; with no pending assignment it answers not found (404); with a
\* pending assignment whose expiresAt is in the past it answers with the expired
\* error (400), which it gives in no other case.  (A step that leaves the clock
\* alone is a request; the other steps are the passing of time.)
IsTake(r) == r.op = "getAssignedQuizForTaking"
PendingOf(q, u) == {i \in AssignmentsOf(assignments, q, u) : assignments[i].status = "pending"}
InThePast(i) == IsSome(assignments[i].expiresAt) /\ Val(assignments[i].expiresAt) < now

C13_TakeOnlyPendingUnexpired ==
  [][(IsTake(response') /\ now' = now) =>
       LET P == PendingOf(response'.quizId, response'.user) IN
       /\ UNCHANGED store
       /\ response'.status \in {200, 400, 404}
       /\ response'.status = 200 => \E i \in P : ~InThePast(i)
       /\ P = {} => response'.status = 404
       /\ (P # {} /\ \A i \in P : InThePast(i)) =>
            (response'.status = 400 /\ response'.message = "This quiz has expired")
       /\ response'.status = 400 => \E i \in P : InThePast(i)]_vars

\* the expired error was given for a pending assignment past its expiry date, with
\* the quiz still there
C13_Witness ==
  /\ IsTake(response) /\ response.status = 400
  /\ QuizExists(response.quizId)
  /\ \E i \in PendingOf(response.quizId, response.user) : InThePast(i)

\* C14: whatever the outcome of the calls to the email service, a submitQuiz with
\* answers by a user with a pending assignment answers 200, completes that
\* assignment with the score it returns and records the quiz as taken; an
\* assignQuiz by the creator whose emails all resolve answers 200 and leaves every
\* user it targets with an assignment, the new ones pending.
C14_MailFailureSwallowed ==
  [][
      /\ (IsSubmit(response') /\ PendingOf(response'.quizId, response'.user) # {}
           /\ IsSome(response'.submitted)) =>
          LET i == Min(PendingOf(response'.quizId, response'.user))
              v == response'.user
          IN /\ response'.status = 200
             /\ assignments'[i].status = "completed"
             /\ assignments'[i].score = Some(response'.score)
             /\ assignments'[i].totalQuestions = Some(response'.totalQuestions)
             /\ Len(quizzesTaken'[v]) = Len(quizzesTaken[v]) + 1
             /\ quizzesTaken'[v][Len(quizzesTaken'[v])].score = response'.score
      /\ (IsAssign(response') /\ ByCreator(response') /\ IsSome(response'.emails)
           /\ Len(Val(response'.emails)) > 0
           /\ \A k \in DOMAIN Val(response'.emails) : ~Unresolvable(Val(response'.emails)[k])) =>
          /\ response'.status = 200
          /\ \A u \in TargetsOf(response') :
               LET before == AssignmentsOf(assignments, response'.quizId, u)
                   after == AssignmentsOf(assignments', response'.quizId, u)
               IN /\ after # {}
                  /\ \A j \in after \ before : assignments'[j].status = "pending"
    ]_vars

\* the completion email to the assigner failed after the one to the user went out:
\* the submission was answered 200 and the assignment is completed
C14_Witness ==
  /\ IsSubmit(response) /\ response.status = 200
  /\ Len(mail) = 2 /\ mail[1].ok /\ ~mail[2].ok
  /\ response.assignment # 0
  /\ assignments[response.assignment].status = "completed"
  /\ assignments[response.assignment].score = Some(response.score)

\* C15: each user's quizzesCreated holds exactly the ids of the existing quizzes
\* whose creator is that user.
C15_CreatedListsMatch ==
  \A u \in Users :
    Range(quizzesCreated[u]) =
      {q \in QuizIds : IsSome(quizzes[q]) /\ Val(quizzes[q]).creator = u}

\* C16: a successful assignQuiz calls the email service once with an assignment
\* notification for each user it creates an assignment for, not at all for a user
\* whose assignment existed, and once with the summary for the assigner.
MailsTo(m, kind, u) == {k \in DOMAIN m : m[k].kind = kind /\ m[k].to = u}

C16_NewAssigneesNotified ==
  [][(IsAssign(response') /\ response'.status = 200) =>
       LET fresh == {u \in TargetsOf(response') :
                       AssignmentsOf(assignments, response'.quizId, u) = {}}
       IN /\ \A u \in Users :
               Cardinality(MailsTo(mail', "assignment", u)) = IF u \in fresh THEN 1 ELSE 0
          /\ Cardinality(MailsTo(mail', "assignmentSummary", response'.user)) = 1]_vars
====
